---- MODULE Spec2Model ----
(***************************************************************************)
(* The two batch annotators of scripts/historical:                         *)
(*   add-launch-costs.py     ("cost")    fills launch_cost_usd_millions    *)
(*   scrape-payload-mass.py  ("payload") fills payload_mass_kg             *)
(* Each script loads data/spacex-launches.json, walks the records, applies *)
(* an ordered chain of substring rules, writes the whole file back and     *)
(* prints a summary.                                                       *)
(*                                                                         *)
(* Python strings are sequences of one-character strings, so that `in`,    *)
(* `>=` and re.search are computed character by character.  A JSON value   *)
(* is a record [t, n, s]: t is "absent" (key missing), "null", "num" (n)   *)
(* or "str" (s).                                                           *)
(***************************************************************************)
EXTENDS Integers, Sequences, FiniteSets, TLC

(***************************************************************************)
(* Bounds of the model.                                                    *)
(***************************************************************************)
\* longest collection on disk in Init
MaxLen == 2
\* script invocations in one behaviour of Spec
MaxRuns == 2

(***************************************************************************)
(* String literals of the two scripts.                                     *)
(***************************************************************************)
sFalcon1 == <<"F", "a", "l", "c", "o", "n", " ", "1">>
sFalconHeavy == <<"F", "a", "l", "c", "o", "n", " ", "H", "e", "a", "v", "y">>
sStarship == <<"S", "t", "a", "r", "s", "h", "i", "p">>
sFalcon9 == <<"F", "a", "l", "c", "o", "n", " ", "9">>
sV10 == <<"v", "1", ".", "0">>
sV11 == <<"v", "1", ".", "1">>
sSTP2 == <<"S", "T", "P", "-", "2">>
sArabsat == <<"A", "r", "a", "b", "s", "a", "t">>
sStarlink == <<"S", "t", "a", "r", "l", "i", "n", "k">>
sCrew == <<"C", "r", "e", "w">>
sDemo2 == <<"D", "e", "m", "o", "-", "2">>
sCRS == <<"C", "R", "S">>
sSpX == <<"S", "p", "X">>
sGPS == <<"G", "P", "S">>
sIridium == <<"I", "r", "i", "d", "i", "u", "m">>
sOneWeb == <<"O", "n", "e", "W", "e", "b">>
sTransporter == <<"T", "r", "a", "n", "s", "p", "o", "r", "t", "e", "r">>
sGroupSp == <<"G", "r", "o", "u", "p", " ">>
dFirstReuse == <<"2", "0", "1", "7", "-", "0", "3", "-", "3", "0">>
dReuseDefault == <<"2", "0", "1", "8", "-", "0", "1", "-", "0", "1">>
\* the list of line 72 of scrape-payload-mass.py
Comsats ==
  { <<"S", "E", "S">>,
    <<"I", "n", "t", "e", "l", "s", "a", "t">>,
    <<"E", "u", "t", "e", "l", "s", "a", "t">>,
    <<"T", "e", "l", "s", "t", "a", "r">>,
    <<"V", "i", "a", "S", "a", "t">>,
    <<"E", "c", "h", "o", "s", "t", "a", "r">> }

(***************************************************************************)
(* The rule tables.                                                        *)
(***************************************************************************)
COSTS ==
  [ k \in { "Falcon 1", "Falcon 9 v1.0", "Falcon 9 v1.1", "Falcon 9 FT",
            "Falcon 9 Block 5", "reused", "Falcon Heavy",
            "Falcon Heavy expendable", "Starship" } |->
      CASE k = "Falcon 1" -> 7
        [] k = "Falcon 9 v1.0" -> 62
        [] k = "Falcon 9 v1.1" -> 62
        [] k = "Falcon 9 FT" -> 62
        [] k = "Falcon 9 Block 5" -> 62
        [] k = "reused" -> 50
        [] k = "Falcon Heavy" -> 97
        [] k = "Falcon Heavy expendable" -> 150
        [] k = "Starship" -> 10 ]

INTERNAL_MISSIONS ==
  [ k \in { "Starlink", "Crew Dragon", "Cargo Dragon" } |->
      CASE k = "Starlink" -> 15
        [] k = "Crew Dragon" -> 55
        [] k = "Cargo Dragon" -> 62 ]

STARLINK_MASSES ==
  [ k \in { "v0.9", "v1.0", "v1.5", "v2-mini" } |->
      CASE k = "v0.9" -> 13620
        [] k = "v1.0" -> 15600
        [] k = "v1.5" -> 15600
        [] k = "v2-mini" -> 17400 ]

(***************************************************************************)
(* JSON / Python values.                                                   *)
(***************************************************************************)
Absent == [t |-> "absent", n |-> 0, s |-> <<>>]
None == [t |-> "null", n |-> 0, s |-> <<>>]
Num(k) == [t |-> "num", n |-> k, s |-> <<>>]
Str(x) == [t |-> "str", n |-> 0, s |-> x]

\* dict.get(key, default): the value under the key, the default when the key
\* is missing
Get(v, default) == IF v.t = "absent" THEN default ELSE v

\* Python truthiness of a value (`if cost:`, `if l.get(...)`)
Truthy(v) ==
  CASE v.t = "num" -> v.n # 0
    [] v.t = "str" -> v.s # <<>>
    [] OTHER -> FALSE

\* `v in [None, 0]`: list membership by ==
InNoneZero(v) == v.t = "null" \/ (v.t = "num" /\ v.n = 0)

\* `needle in hay` on str
Contains(needle, hay) ==
  \E i \in 1..(Len(hay) - Len(needle) + 1) :
    SubSeq(hay, i, i + Len(needle) - 1) = needle

\* code points of the characters the dates are made of
Ord ==
  [ c \in {"-", "0", "1", "2", "3", "4", "5", "6", "7", "8", "9"} |->
      CASE c = "-" -> 45
        [] c = "0" -> 48 [] c = "1" -> 49 [] c = "2" -> 50 [] c = "3" -> 51
        [] c = "4" -> 52 [] c = "5" -> 53 [] c = "6" -> 54 [] c = "7" -> 55
        [] c = "8" -> 56 [] c = "9" -> 57 ]

\* a >= b on str: lexicographic by code point
RECURSIVE StrGE(_, _)
StrGE(a, b) ==
  IF b = <<>> THEN TRUE
  ELSE IF a = <<>> THEN FALSE
  ELSE IF Head(a) = Head(b) THEN StrGE(Tail(a), Tail(b))
  ELSE Ord[Head(a)] > Ord[Head(b)]

Digits == {"0", "1", "2", "3", "4", "5", "6", "7", "8", "9"}

\* int() of a non-empty run of decimal digits
RECURSIVE ToInt(_)
ToInt(ds) ==
  IF ds = <<>> THEN 0
  ELSE 10 * ToInt(SubSeq(ds, 1, Len(ds) - 1)) + (Ord[ds[Len(ds)]] - 48)

\* the digits that r'Group (\d+)-' captures when it matches at position i of
\* the mission name, <<>> when it does not match there
GroupAt(mission, i) ==
  LET from == i + Len(sGroupSp)
      ends == { j \in from..Len(mission) : mission[j] \notin Digits }
      stop == IF ends = {} THEN Len(mission) + 1
              ELSE CHOOSE j \in ends : \A k \in ends : j <= k
  IN  IF /\ i + Len(sGroupSp) - 1 <= Len(mission)
         /\ SubSeq(mission, i, i + Len(sGroupSp) - 1) = sGroupSp
         /\ stop > from
         /\ stop <= Len(mission)
         /\ mission[stop] = "-"
      THEN SubSeq(mission, from, stop - 1)
      ELSE <<>>

\* re.search(r'Group (\d+)-', mission): group(1) of the leftmost match, <<>>
\* when there is no match (None)
group_match(mission) ==
  LET at == { i \in 1..Len(mission) : GroupAt(mission, i) # <<>> }
  IN  IF at = {} THEN <<>>
      ELSE GroupAt(mission, CHOOSE i \in at : \A k \in at : i <= k)

(***************************************************************************)
(* add-launch-costs.py: the rule chain of one loop iteration.              *)
(***************************************************************************)
\* cost with the date rule tried before the cargo rule
cost_mut(launch) ==
  LET mission == launch.mission_name.s
      vehicle == Get(launch.vehicle, Str(<<>>)).s
      date == Get(launch.launch_date, Str(<<>>)).s
  IN  IF Contains(sFalcon1, vehicle) THEN Num(COSTS["Falcon 1"])
      ELSE IF Contains(sFalconHeavy, vehicle) THEN
        IF Contains(sSTP2, mission) \/ Contains(sArabsat, mission)
        THEN Num(COSTS["Falcon Heavy expendable"])
        ELSE Num(COSTS["Falcon Heavy"])
      ELSE IF Contains(sStarship, vehicle) THEN Num(COSTS["Starship"])
      ELSE IF Contains(sFalcon9, vehicle) THEN
        IF Contains(sStarlink, mission) THEN Num(INTERNAL_MISSIONS["Starlink"])
        ELSE IF Contains(sCrew, mission) \/ Contains(sDemo2, mission)
        THEN Num(INTERNAL_MISSIONS["Crew Dragon"])
        ELSE IF StrGE(date, dFirstReuse) THEN
          IF StrGE(date, dReuseDefault) THEN Num(COSTS["reused"])
          ELSE Num(COSTS["Falcon 9 Block 5"])
        ELSE IF Contains(sCRS, mission) \/ Contains(sSpX, mission)
        THEN Num(INTERNAL_MISSIONS["Cargo Dragon"])
        ELSE IF Contains(sV10, vehicle) THEN Num(COSTS["Falcon 9 v1.0"])
        ELSE IF Contains(sV11, vehicle) THEN Num(COSTS["Falcon 9 v1.1"])
        ELSE Num(COSTS["Falcon 9 FT"])
      ELSE None

\* the value of `cost` at line 95, for a record that has a mission_name
cost(launch) ==
  LET mission == launch.mission_name.s
      vehicle == Get(launch.vehicle, Str(<<>>)).s
      date == Get(launch.launch_date, Str(<<>>)).s
  IN  IF Contains(sFalcon1, vehicle) THEN Num(COSTS["Falcon 1"])
      ELSE IF Contains(sFalconHeavy, vehicle) THEN
        IF Contains(sSTP2, mission) \/ Contains(sArabsat, mission)
        THEN Num(COSTS["Falcon Heavy expendable"])
        ELSE Num(COSTS["Falcon Heavy"])
      ELSE IF Contains(sStarship, vehicle) THEN Num(COSTS["Starship"])
      ELSE IF Contains(sFalcon9, vehicle) THEN
        IF Contains(sStarlink, mission) THEN Num(INTERNAL_MISSIONS["Starlink"])
        ELSE IF Contains(sCrew, mission) \/ Contains(sDemo2, mission)
        THEN Num(INTERNAL_MISSIONS["Crew Dragon"])
        ELSE IF Contains(sCRS, mission) \/ Contains(sSpX, mission)
        THEN Num(INTERNAL_MISSIONS["Cargo Dragon"])
        ELSE IF StrGE(date, dFirstReuse) THEN
          IF StrGE(date, dReuseDefault) THEN Num(COSTS["reused"])
          ELSE Num(COSTS["Falcon 9 Block 5"])
        ELSE IF Contains(sV10, vehicle) THEN Num(COSTS["Falcon 9 v1.0"])
        ELSE IF Contains(sV11, vehicle) THEN Num(COSTS["Falcon 9 v1.1"])
        ELSE Num(COSTS["Falcon 9 FT"])
      ELSE None

\* AnnotateCost rebuilding the record without its payload mass
AnnotateCost_mut(launch) ==
  IF Truthy(cost(launch))
  THEN [launch EXCEPT !.launch_cost_usd_millions = cost(launch),
                      !.payload_mass_kg = Absent]
  ELSE launch

\* lines 95-96: the record after the iteration
AnnotateCost(launch) ==
  IF Truthy(cost(launch))
  THEN [launch EXCEPT !.launch_cost_usd_millions = cost(launch)]
  ELSE launch

(***************************************************************************)
(* scrape-payload-mass.py: the rule chain of one loop iteration.           *)
(***************************************************************************)
\* HasPayloadMass with the `not` of line 37 dropped
HasPayloadMass_mut(launch) == InNoneZero(Get(launch.payload_mass_kg, None))

\* line 37: the record already has a payload mass and is skipped
HasPayloadMass(launch) == ~InNoneZero(Get(launch.payload_mass_kg, None))

\* payload_mass with the CRS rule tried before the Starlink rule
payload_mass_mut(launch) ==
  LET mission == launch.mission_name.s
      vehicle == Get(launch.vehicle, Str(<<>>))
  IN  IF Contains(sCRS, mission) \/ Contains(sSpX, mission) THEN Num(2500)
      ELSE IF Contains(sStarlink, mission) THEN
        IF group_match(mission) # <<>> /\ ToInt(group_match(mission)) >= 6
        THEN Num(STARLINK_MASSES["v2-mini"])
        ELSE Num(STARLINK_MASSES["v1.5"])
      ELSE IF Contains(sCrew, mission) \/ Contains(sDemo2, mission) THEN Num(12500)
      ELSE IF Contains(sGPS, mission) THEN Num(4400)
      ELSE IF Contains(sIridium, mission) THEN Num(9600)
      ELSE IF Contains(sOneWeb, mission) THEN Num(5000)
      ELSE IF \E x \in Comsats : Contains(x, mission) THEN Num(5300)
      ELSE IF Contains(sTransporter, mission) THEN Num(5000)
      ELSE IF vehicle = Str(sFalconHeavy) THEN
        IF Contains(sArabsat, mission) THEN Num(6000)
        ELSE IF Contains(sSTP2, mission) THEN Num(3700)
        ELSE Num(6000)
      ELSE None

\* the value of `payload_mass` at line 88, for a record that has a
\* mission_name and was not skipped
payload_mass(launch) ==
  LET mission == launch.mission_name.s
      vehicle == Get(launch.vehicle, Str(<<>>))
  IN  IF Contains(sStarlink, mission) THEN
        IF group_match(mission) # <<>> /\ ToInt(group_match(mission)) >= 6
        THEN Num(STARLINK_MASSES["v2-mini"])
        ELSE Num(STARLINK_MASSES["v1.5"])
      ELSE IF Contains(sCRS, mission) \/ Contains(sSpX, mission) THEN Num(2500)
      ELSE IF Contains(sCrew, mission) \/ Contains(sDemo2, mission) THEN Num(12500)
      ELSE IF Contains(sGPS, mission) THEN Num(4400)
      ELSE IF Contains(sIridium, mission) THEN Num(9600)
      ELSE IF Contains(sOneWeb, mission) THEN Num(5000)
      ELSE IF \E x \in Comsats : Contains(x, mission) THEN Num(5300)
      ELSE IF Contains(sTransporter, mission) THEN Num(5000)
      ELSE IF vehicle = Str(sFalconHeavy) THEN
        IF Contains(sArabsat, mission) THEN Num(6000)
        ELSE IF Contains(sSTP2, mission) THEN Num(3700)
        ELSE Num(6000)
      ELSE None

\* PayloadUpdates without the skip of line 37
PayloadUpdates_mut(launch) == Truthy(payload_mass(launch))

\* the record counts as updated in this iteration (lines 37 and 88)
PayloadUpdates(launch) == ~HasPayloadMass(launch) /\ Truthy(payload_mass(launch))

\* lines 37-89: the record after the iteration
AnnotatePayload(launch) ==
  IF PayloadUpdates(launch)
  THEN [launch EXCEPT !.payload_mass_kg = payload_mass(launch)]
  ELSE launch

(***************************************************************************)
(* Whole passes, as functions of the loaded collection (every record has   *)
(* a mission_name, so the loop runs to its end).                           *)
(***************************************************************************)
CostPass(ls) == [i \in 1..Len(ls) |-> AnnotateCost(ls[i])]
PayloadPass(ls) == [i \in 1..Len(ls) |-> AnnotatePayload(ls[i])]

RECURSIVE SumCost(_)
\* line 112: sum(l.get('launch_cost_usd_millions', 0) for l in launches)
SumCost(ls) ==
  IF ls = <<>> THEN 0
  ELSE Get(Head(ls).launch_cost_usd_millions, Num(0)).n + SumCost(Tail(ls))

(***************************************************************************)
(* State.                                                                  *)
(***************************************************************************)
Procs == {"cost", "payload"}

VARIABLES
  disk,      \* data/spacex-launches.json: [state, launches]
  pc,        \* pc[p]: the statement process p executes next, or how it ended
  launches,  \* launches[p]: the list p holds in memory
  idx,       \* idx[p]: position of the for loop in launches[p]
  count,     \* count[p]: added_count / updated_count
  out,       \* out[p]: the lines p has printed, in order
  loaded,    \* loaded[p]: the list json.load returned to p (history)
  hist,      \* the loads and saves so far, in order (history)
  orig       \* the file before the first invocation (history)

vars == <<disk, pc, launches, idx, count, out, loaded, hist, orig>>

\* a file holding a JSON array of records
File(ls) == [state |-> "json", launches |-> ls]
\* a file just truncated by open(..., 'w')
Empty == [state |-> "empty", launches |-> <<>>]
\* a file json.load rejects
Garbage == [state |-> "garbage", launches |-> <<>>]

\* one printed line
Event(e, n, m) == [ev |-> e, n |-> n, m |-> m]

\* the positions at which a process is alive
Running == {"loop", "open", "dump", "success", "stats"}

\* the number of loads in the history
Loads == Cardinality({i \in 1..Len(hist) : hist[i][2] = "load"})

(***************************************************************************)
(* Statements common to the two scripts.                                   *)
(***************************************************************************)
\* with open(...,'r'): launches = json.load(f); print Loaded; counter = 0
Load(p) ==
  /\ pc[p] \notin Running
  /\ IF disk.state = "json"
     THEN /\ pc' = [pc EXCEPT ![p] = "loop"]
          /\ launches' = [launches EXCEPT ![p] = disk.launches]
          /\ loaded' = [loaded EXCEPT ![p] = disk.launches]
          /\ out' = [out EXCEPT ![p] = <<Event("Loaded", Len(disk.launches), 0)>>]
          /\ hist' = Append(hist, <<p, "load">>)
     ELSE /\ pc' = [pc EXCEPT ![p] = "load_error"]
          /\ launches' = [launches EXCEPT ![p] = <<>>]
          /\ loaded' = [loaded EXCEPT ![p] = <<>>]
          /\ out' = [out EXCEPT ![p] = <<>>]
          /\ hist' = hist
  /\ idx' = [idx EXCEPT ![p] = 1]
  /\ count' = [count EXCEPT ![p] = 0]
  /\ UNCHANGED <<disk, orig>>

\* the for loop is exhausted; print the counter
Report(p, e) ==
  /\ pc[p] = "loop"
  /\ idx[p] > Len(launches[p])
  /\ out' = [out EXCEPT ![p] = Append(@, Event(e, count[p], 0))]
  /\ pc' = [pc EXCEPT ![p] = "open"]
  /\ UNCHANGED <<disk, launches, idx, count, loaded, hist, orig>>

\* Open with the confirmation printed inside the with block, before json.dump
Open_mut(p) ==
  /\ pc[p] = "open"
  /\ disk' = Empty
  /\ out' = [out EXCEPT ![p] = Append(@, Event("Data file updated successfully", 0, 0))]
  /\ pc' = [pc EXCEPT ![p] = "dump"]
  /\ UNCHANGED <<launches, idx, count, loaded, hist, orig>>

\* open('data/spacex-launches.json', 'w') truncates the file
Open(p) ==
  /\ pc[p] = "open"
  /\ disk' = Empty
  /\ pc' = [pc EXCEPT ![p] = "dump"]
  /\ UNCHANGED <<launches, idx, count, out, loaded, hist, orig>>

\* Dump writing the list as it was loaded
Dump_mut(p) ==
  /\ pc[p] = "dump"
  /\ disk' \in (IF disk = Empty THEN {File(loaded[p])}
                                ELSE {File(loaded[p]), Garbage})
  /\ hist' = Append(hist, <<p, "save">>)
  /\ pc' = [pc EXCEPT ![p] = "success"]
  /\ UNCHANGED <<launches, idx, count, out, loaded, orig>>

\* json.dump(launches, f, indent=2) and the close of the file.  The text is
\* written from offset 0 of p's own descriptor: over a file that another
\* writer has filled since p truncated it, the result is p's text or, when
\* the other text is longer, p's text followed by the other's tail.
Dump(p) ==
  /\ pc[p] = "dump"
  /\ disk' \in (IF disk = Empty THEN {File(launches[p])}
                                ELSE {File(launches[p]), Garbage})
  /\ hist' = Append(hist, <<p, "save">>)
  /\ pc' = [pc EXCEPT ![p] = "success"]
  /\ UNCHANGED <<launches, idx, count, out, loaded, orig>>

\* print("Data file updated successfully")
Success(p) ==
  /\ pc[p] = "success"
  /\ out' = [out EXCEPT ![p] = Append(@, Event("Data file updated successfully", 0, 0))]
  /\ pc' = [pc EXCEPT ![p] = "stats"]
  /\ UNCHANGED <<disk, launches, idx, count, loaded, hist, orig>>

(***************************************************************************)
(* add-launch-costs.py                                                     *)
(***************************************************************************)
CostLoad == Load("cost")

\* CostLoop with the file rewritten after every record
CostLoop_mut ==
  /\ pc["cost"] = "loop"
  /\ idx["cost"] <= Len(launches["cost"])
  /\ LET launch == launches["cost"][idx["cost"]]
     IN  IF launch.mission_name.t = "absent"
         THEN /\ pc' = [pc EXCEPT !["cost"] = "pass_error"]
              /\ UNCHANGED <<launches, idx, count>>
         ELSE /\ launches' = [launches EXCEPT !["cost"][idx["cost"]] = AnnotateCost(launch)]
              /\ count' = [count EXCEPT !["cost"] = IF Truthy(cost(launch)) THEN @ + 1 ELSE @]
              /\ idx' = [idx EXCEPT !["cost"] = @ + 1]
              /\ pc' = pc
  /\ disk' = File(launches'["cost"])
  /\ UNCHANGED <<out, loaded, hist, orig>>

\* one iteration of the loop; launch['mission_name'] raises KeyError
CostLoop ==
  /\ pc["cost"] = "loop"
  /\ idx["cost"] <= Len(launches["cost"])
  /\ LET launch == launches["cost"][idx["cost"]]
     IN  IF launch.mission_name.t = "absent"
         THEN /\ pc' = [pc EXCEPT !["cost"] = "pass_error"]
              /\ UNCHANGED <<launches, idx, count>>
         ELSE /\ launches' = [launches EXCEPT !["cost"][idx["cost"]] = AnnotateCost(launch)]
              /\ count' = [count EXCEPT !["cost"] = IF Truthy(cost(launch)) THEN @ + 1 ELSE @]
              /\ idx' = [idx EXCEPT !["cost"] = @ + 1]
              /\ pc' = pc
  /\ UNCHANGED <<disk, out, loaded, hist, orig>>

CostReport == Report("cost", "Added launch cost estimates")
CostOpen == Open("cost")
CostDump == Dump("cost")
CostSuccess == Success("cost")

\* lines 108-113; sum() raises TypeError on a null cost
CostStats ==
  /\ pc["cost"] = "stats"
  /\ LET ls == launches["cost"]
         with_cost == Cardinality({i \in 1..Len(ls) :
                         Truthy(Get(ls[i].launch_cost_usd_millions, None))})
         line1 == Event("Launches with cost data", with_cost, Len(ls))
     IN  IF \E i \in 1..Len(ls) : ls[i].launch_cost_usd_millions.t = "null"
         THEN /\ out' = [out EXCEPT !["cost"] = Append(@, line1)]
              /\ pc' = [pc EXCEPT !["cost"] = "stats_error"]
         ELSE /\ out' = [out EXCEPT !["cost"] =
                    @ \o <<line1, Event("Total estimated launch costs", SumCost(ls), 0)>>]
              /\ pc' = [pc EXCEPT !["cost"] = "done"]
  /\ UNCHANGED <<disk, launches, idx, count, loaded, hist, orig>>

(***************************************************************************)
(* scrape-payload-mass.py                                                  *)
(***************************************************************************)
PayloadLoad == Load("payload")

\* one iteration of the loop; launch['mission_name'] raises KeyError
PayloadLoop ==
  /\ pc["payload"] = "loop"
  /\ idx["payload"] <= Len(launches["payload"])
  /\ LET launch == launches["payload"][idx["payload"]]
     IN  IF launch.mission_name.t = "absent"
         THEN /\ pc' = [pc EXCEPT !["payload"] = "pass_error"]
              /\ UNCHANGED <<launches, idx, count>>
         ELSE /\ launches' = [launches EXCEPT !["payload"][idx["payload"]] = AnnotatePayload(launch)]
              /\ count' = [count EXCEPT !["payload"] = IF PayloadUpdates(launch) THEN @ + 1 ELSE @]
              /\ idx' = [idx EXCEPT !["payload"] = @ + 1]
              /\ pc' = pc
  /\ UNCHANGED <<disk, out, loaded, hist, orig>>

PayloadReport == Report("payload", "Updated launches with payload mass estimates")
PayloadOpen == Open("payload")
PayloadDump == Dump("payload")
PayloadSuccess == Success("payload")

\* lines 101-102
PayloadStats ==
  /\ pc["payload"] = "stats"
  /\ LET ls == launches["payload"]
         null_count == Cardinality({i \in 1..Len(ls) :
                          InNoneZero(Get(ls[i].payload_mass_kg, None))})
     IN  out' = [out EXCEPT !["payload"] =
                   Append(@, Event("Remaining null values", null_count, Len(ls)))]
  /\ pc' = [pc EXCEPT !["payload"] = "done"]
  /\ UNCHANGED <<disk, launches, idx, count, loaded, hist, orig>>

\* every statement after the load, of either script
Step ==
  \/ CostLoop \/ CostReport \/ CostOpen \/ CostDump \/ CostSuccess \/ CostStats
  \/ PayloadLoop \/ PayloadReport \/ PayloadOpen \/ PayloadDump
  \/ PayloadSuccess \/ PayloadStats

(***************************************************************************)
(* Input domain: the strings the records of the initial file are made of.  *)
(***************************************************************************)
mStarlink610 == <<"S", "t", "a", "r", "l", "i", "n", "k", " ", "G", "r", "o", "u", "p", " ", "6", "-", "1", "0">>
mStarlink45 == <<"S", "t", "a", "r", "l", "i", "n", "k", " ", "G", "r", "o", "u", "p", " ", "4", "-", "5">>
mStarlink121 == <<"S", "t", "a", "r", "l", "i", "n", "k", " ", "G", "r", "o", "u", "p", " ", "1", "2", "-", "1">>
mStarlink06 == <<"S", "t", "a", "r", "l", "i", "n", "k", " ", "G", "r", "o", "u", "p", " ", "0", "6", "-", "2">>
mStarlinkTwo == <<"S", "t", "a", "r", "l", "i", "n", "k", " ", "G", "r", "o", "u", "p", " ", "4", "-", "5", " ", "G", "r", "o", "u", "p", " ", "6", "-", "1">>
mStarlinkNoHyphen == <<"S", "t", "a", "r", "l", "i", "n", "k", " ", "G", "r", "o", "u", "p", " ", "7">>
mStarlinkNoDigit == <<"S", "t", "a", "r", "l", "i", "n", "k", " ", "G", "r", "o", "u", "p", " ", "-", "7">>
mStarlinkL15 == <<"S", "t", "a", "r", "l", "i", "n", "k", " ", "L", "1", "5">>
mStarlinkCRS == <<"S", "t", "a", "r", "l", "i", "n", "k", " ", "C", "R", "S", "-", "9">>
mCRS21 == <<"C", "R", "S", "-", "2", "1">>
mSpXCrew == <<"S", "p", "X", " ", "C", "r", "e", "w", "-", "1">>
mCrew1 == <<"C", "r", "e", "w", "-", "1">>
mDemo2 == <<"D", "e", "m", "o", "-", "2">>
mCrewGPS == <<"C", "r", "e", "w", " ", "G", "P", "S">>
mGPS == <<"G", "P", "S", " ", "I", "I", "I", "-", "3">>
mGPSIridium == <<"G", "P", "S", " ", "I", "r", "i", "d", "i", "u", "m">>
mIridium == <<"I", "r", "i", "d", "i", "u", "m", " ", "N", "E", "X", "T", "-", "1">>
mIridiumOneWeb == <<"I", "r", "i", "d", "i", "u", "m", " ", "O", "n", "e", "W", "e", "b">>
mOneWeb == <<"O", "n", "e", "W", "e", "b", " ", "1", "7">>
mOneWebSES == <<"O", "n", "e", "W", "e", "b", " ", "S", "E", "S">>
mSES10 == <<"S", "E", "S", "-", "1", "0">>
mIntelsat == <<"I", "n", "t", "e", "l", "s", "a", "t", " ", "3", "5", "e">>
mEutelsat == <<"E", "u", "t", "e", "l", "s", "a", "t", " ", "3", "6", "D">>
mTelstar == <<"T", "e", "l", "s", "t", "a", "r", " ", "1", "9", "V">>
mViaSat == <<"V", "i", "a", "S", "a", "t", "-", "3">>
mEchostar == <<"E", "c", "h", "o", "s", "t", "a", "r", " ", "2", "3">>
mSESTransporter == <<"S", "E", "S", " ", "T", "r", "a", "n", "s", "p", "o", "r", "t", "e", "r">>
mTransporter == <<"T", "r", "a", "n", "s", "p", "o", "r", "t", "e", "r", "-", "1">>
mTransporterArabsat == <<"T", "r", "a", "n", "s", "p", "o", "r", "t", "e", "r", " ", "A", "r", "a", "b", "s", "a", "t">>
mArabsat == <<"A", "r", "a", "b", "s", "a", "t", "-", "6", "A">>
mArabsatSTP2 == <<"A", "r", "a", "b", "s", "a", "t", " ", "S", "T", "P", "-", "2">>
mSTP2 == <<"S", "T", "P", "-", "2">>
mFalconSat == <<"F", "a", "l", "c", "o", "n", "S", "a", "t">>
vFalcon1 == <<"F", "a", "l", "c", "o", "n", " ", "1">>
vFalconHeavy == <<"F", "a", "l", "c", "o", "n", " ", "H", "e", "a", "v", "y">>
vFalconHeavyB5 == <<"F", "a", "l", "c", "o", "n", " ", "H", "e", "a", "v", "y", " ", "B", "l", "o", "c", "k", " ", "5">>
vStarship == <<"S", "t", "a", "r", "s", "h", "i", "p">>
vFalcon9v10 == <<"F", "a", "l", "c", "o", "n", " ", "9", " ", "v", "1", ".", "0">>
vFalcon9v11 == <<"F", "a", "l", "c", "o", "n", " ", "9", " ", "v", "1", ".", "1">>
vFalcon9FT == <<"F", "a", "l", "c", "o", "n", " ", "9", " ", "F", "T">>
vFalcon9B5 == <<"F", "a", "l", "c", "o", "n", " ", "9", " ", "B", "l", "o", "c", "k", " ", "5">>
vFalcon1and9 == <<"F", "a", "l", "c", "o", "n", " ", "1", " ", "/", " ", "F", "a", "l", "c", "o", "n", " ", "9">>
vHeavyStarship == <<"S", "t", "a", "r", "s", "h", "i", "p", " ", "/", " ", "F", "a", "l", "c", "o", "n", " ", "H", "e", "a", "v", "y">>
vStarship9 == <<"F", "a", "l", "c", "o", "n", " ", "9", " ", "/", " ", "S", "t", "a", "r", "s", "h", "i", "p">>
vAtlasV == <<"A", "t", "l", "a", "s", " ", "V">>
d20150601 == <<"2", "0", "1", "5", "-", "0", "6", "-", "0", "1">>
d20170329 == <<"2", "0", "1", "7", "-", "0", "3", "-", "2", "9">>
d20170330 == <<"2", "0", "1", "7", "-", "0", "3", "-", "3", "0">>
d20171231 == <<"2", "0", "1", "7", "-", "1", "2", "-", "3", "1">>
d20180101 == <<"2", "0", "1", "8", "-", "0", "1", "-", "0", "1">>
d20201206 == <<"2", "0", "2", "0", "-", "1", "2", "-", "0", "6">>

MissionNames ==
  { mStarlink610, mStarlink45, mStarlink121, mStarlink06, mStarlinkTwo,
    mStarlinkNoHyphen, mStarlinkNoDigit, mStarlinkL15, mStarlinkCRS, mCRS21,
    mSpXCrew, mCrew1, mDemo2, mCrewGPS, mGPS, mGPSIridium, mIridium,
    mIridiumOneWeb, mOneWeb, mOneWebSES, mSES10, mIntelsat, mEutelsat,
    mTelstar, mViaSat, mEchostar, mSESTransporter, mTransporter,
    mTransporterArabsat, mArabsat, mArabsatSTP2, mSTP2, mFalconSat }
VehicleNames ==
  { vFalcon1, vFalconHeavy, vFalconHeavyB5, vStarship, vFalcon9v10,
    vFalcon9v11, vFalcon9FT, vFalcon9B5, vFalcon1and9, vHeavyStarship,
    vStarship9, vAtlasV }
DateStrings ==
  { d20150601, d20170329, d20170330, d20171231, d20180101, d20201206 }

Missions == {Absent} \cup {Str(x) : x \in MissionNames}
Vehicles == {Absent} \cup {Str(x) : x \in VehicleNames}
Dates == {Absent} \cup {Str(x) : x \in DateStrings}
Costs == {Absent, None, Num(0), Num(99)}
Masses == {Absent, None, Num(0), Num(1234)}

Launch(m, v, d, c, pm) ==
  [ mission_name |-> m, vehicle |-> v, launch_date |-> d,
    launch_cost_usd_millions |-> c, payload_mass_kg |-> pm ]

\* every record over the input domain
AllLaunches ==
  { Launch(m, v, d, c, pm) :
      m \in Missions, v \in Vehicles, d \in Dates, c \in Costs, pm \in Masses }

\* the records the longer collections are made of
SampleLaunches ==
  { Launch(Str(mFalconSat), Str(vFalcon1), Str(d20150601), Num(99), Absent),
    Launch(Str(mStarlink610), Str(vFalcon9B5), Str(d20201206), Absent, Num(0)),
    Launch(Str(mCRS21), Str(vFalcon9B5), Str(d20201206), Absent, None),
    Launch(Str(mSES10), Str(vAtlasV), Str(d20170330), Absent, Num(1234)),
    Launch(Str(mArabsat), Str(vFalconHeavy), Str(d20180101), Num(0), Absent),
    Launch(Str(mFalconSat), Absent, Absent, None, Num(0)),
    Launch(Absent, Str(vFalcon9FT), Str(d20150601), Absent, Absent) }

Collections == UNION { [1..k -> SampleLaunches] : k \in 0..MaxLen }

(***************************************************************************)
(* Specifications.                                                         *)
(***************************************************************************)
Idle ==
  /\ pc = [p \in Procs |-> "idle"]
  /\ launches = [p \in Procs |-> <<>>]
  /\ idx = [p \in Procs |-> 1]
  /\ count = [p \in Procs |-> 0]
  /\ out = [p \in Procs |-> <<>>]
  /\ loaded = [p \in Procs |-> <<>>]
  /\ hist = <<>>
  /\ orig = disk

\* the file holds any collection of up to MaxLen sample records, or is not
\* a JSON document
Init ==
  /\ disk \in {File(ls) : ls \in Collections} \cup {Garbage}
  /\ Idle

\* the file holds one record, any of the input domain
InitRules ==
  /\ disk \in {File(<<l>>) : l \in AllLaunches}
  /\ Idle

\* the operator starts a script when no script is running
Sequential(limit) ==
  /\ \A p \in Procs : pc[p] \notin Running
  /\ Loads < limit

\* scripts run one after the other, MaxRuns invocations in all
Next ==
  \/ Sequential(MaxRuns) /\ CostLoad
  \/ Sequential(MaxRuns) /\ PayloadLoad
  \/ Step

Spec == Init /\ [][Next]_vars

\* one invocation of one script on a one-record file
NextRules ==
  \/ Sequential(1) /\ CostLoad
  \/ Sequential(1) /\ PayloadLoad
  \/ Step

SpecRules == InitRules /\ [][NextRules]_vars

\* each script is started once, in its own process, at any time
NextConc ==
  \/ pc["cost"] = "idle" /\ CostLoad
  \/ pc["payload"] = "idle" /\ PayloadLoad
  \/ Step

SpecConc == Init /\ [][NextConc]_vars

(***************************************************************************)
(* Properties.                                                             *)
(***************************************************************************)
\* the last position of event <<p, e>> in the history, 0 when there is none
LastPos(p, e) ==
  LET S == {i \in 1..Len(hist) : hist[i] = <<p, e>>}
  IN  IF S = {} THEN 0 ELSE CHOOSE i \in S : \A j \in S : j <= i

\* the history ends with two complete runs of script p, one after the other
TwiceInSequence(p) ==
  /\ Len(hist) >= 4
  /\ SubSeq(hist, Len(hist) - 3, Len(hist)) =
       <<<<p, "load">>, <<p, "save">>, <<p, "load">>, <<p, "save">>>>

\* the record has no payload mass: absent, null or 0
LacksMass(l) == l.payload_mass_kg \in {Absent, None, Num(0)}

\* C1: the Cost Annotator never overwrites an existing non-empty cost: a
\* record whose launch_cost_usd_millions was truthy when loaded keeps that
\* value through the pass.
C1_CostNeverOverwrites ==
  \A i \in 1..Len(launches["cost"]) :
    Truthy(loaded["cost"][i].launch_cost_usd_millions) =>
      launches["cost"][i].launch_cost_usd_millions =
        loaded["cost"][i].launch_cost_usd_millions

\* C2: when the Cost Annotator has run twice in sequence, the second run
\* has changed nothing and its update count is 0.
C2_CostIdempotent ==
  TwiceInSequence("cost") =>
    /\ count["cost"] = 0
    /\ disk = File(loaded["cost"])

\* C3: the Payload Mass Annotator never overwrites a present, non-null,
\* nonzero payload mass and does not count such a record as updated; only
\* records whose mass is absent, null or 0 receive a value.
C3_PayloadNeverOverwrites ==
  LET ls == launches["payload"]
      ld == loaded["payload"]
  IN  /\ \A i \in 1..Len(ls) :
           /\ (/\ ld[i].payload_mass_kg.t \notin {"absent", "null"}
               /\ ld[i].payload_mass_kg # Num(0))
                => ls[i].payload_mass_kg = ld[i].payload_mass_kg
           /\ ls[i].payload_mass_kg # ld[i].payload_mass_kg => LacksMass(ld[i])
      /\ count["payload"] =
           Cardinality({i \in 1..Len(ls) : /\ LacksMass(ld[i])
                                            /\ ls[i].payload_mass_kg # ld[i].payload_mass_kg})

\* C3 witness: the pass is over a record that had a nonzero mass and whose
\* mission name matches a rule.
C3_Witness ==
  /\ pc["payload"] = "done"
  /\ loaded["payload"][1].payload_mass_kg = Num(1234)
  /\ loaded["payload"][1].mission_name = Str(mSES10)

\* C4: a second run of the Payload Mass Annotator, directly after a first
\* one, updates no record (count 0), keeps the list as loaded and writes
\* the file back unchanged.
C4_PayloadIdempotent ==
  /\ (/\ Len(hist) >= 3
      /\ SubSeq(hist, Len(hist) - 2, Len(hist)) =
           <<<<"payload", "load">>, <<"payload", "save">>, <<"payload", "load">>>>)
       => /\ count["payload"] = 0
          /\ launches["payload"] = loaded["payload"]
  /\ TwiceInSequence("payload") =>
       /\ count["payload"] = 0
       /\ disk = File(loaded["payload"])

\* C4 witness: two runs in sequence are complete and the first one filled
\* a record.
C4_Witness ==
  /\ TwiceInSequence("payload")
  /\ pc["payload"] = "done"
  /\ disk # orig
  /\ \E i \in 1..Len(disk.launches) : LacksMass(disk.launches[i])

\* both processes ran to their last statement
BothDone == pc["cost"] = "done" /\ pc["payload"] = "done"

\* one process saved before the other loaded
RunsApart ==
  \E p, q \in Procs :
    /\ p # q
    /\ LastPos(p, "save") > 0
    /\ LastPos(p, "save") < LastPos(q, "load")

\* the pass of script p over a list
Pass(p, ls) == IF p = "cost" THEN CostPass(ls) ELSE PayloadPass(ls)

\* C5 as stated: whatever the interleaving of the two processes, the final
\* file carries both annotators' results, the result of running them one
\* after the other.
C5_ConcurrentKeepsBoth ==
  BothDone => disk = File(PayloadPass(CostPass(orig.launches)))

\* C5 amended: the final file carries both annotators' results when one
\* process saved before the other loaded; when both loaded before either
\* saved, it holds the pass of the last saver alone over the original
\* collection, or is unreadable.
C5_LastSaverWins ==
  BothDone =>
    IF RunsApart
    THEN disk = File(PayloadPass(CostPass(orig.launches)))
    ELSE disk \in { File(Pass(hist[Len(hist)][1], orig.launches)), Garbage }

\* C5 witness: both loaded before either saved, the payload process saved
\* last, and the cost annotation of a record is not in the final file.
C5_Witness ==
  /\ BothDone
  /\ ~RunsApart
  /\ disk = File(PayloadPass(orig.launches))
  /\ CostPass(orig.launches) # orig.launches
  /\ PayloadPass(orig.launches) # orig.launches

\* a record with one field taken out of the comparison
Without(l, field) == [l EXCEPT ![field] = Absent]

\* the history is one complete run of p followed by one complete run of q
InOrder(p, q) ==
  hist = <<<<p, "load">>, <<p, "save">>, <<q, "load">>, <<q, "save">>>>

\* C6: cost-then-payload and payload-then-cost end in the same file; the
\* Cost Annotator changes only launch_cost_usd_millions, the Payload Mass
\* Annotator only payload_mass_kg, and neither rule chain depends on the
\* field the other script writes.
C6_Commute ==
  /\ (InOrder("cost", "payload") \/ InOrder("payload", "cost")) =>
       /\ disk = File(PayloadPass(CostPass(orig.launches)))
       /\ disk = File(CostPass(PayloadPass(orig.launches)))
  /\ \A i \in 1..Len(launches["cost"]) :
       /\ Without(launches["cost"][i], "launch_cost_usd_millions") =
            Without(loaded["cost"][i], "launch_cost_usd_millions")
       /\ \A v \in Masses :
            cost([loaded["cost"][i] EXCEPT !.payload_mass_kg = v]) =
              cost(loaded["cost"][i])
  /\ \A i \in 1..Len(launches["payload"]) :
       /\ Without(launches["payload"][i], "payload_mass_kg") =
            Without(loaded["payload"][i], "payload_mass_kg")
       /\ \A v \in Costs :
            payload_mass([loaded["payload"][i] EXCEPT !.launch_cost_usd_millions = v]) =
              payload_mass(loaded["payload"][i])

\* C6 witness: cost ran, then payload, and one record received both fields.
C6_Witness ==
  /\ InOrder("cost", "payload")
  /\ \E i \in 1..Len(disk.launches) :
       /\ disk.launches[i].launch_cost_usd_millions #
            orig.launches[i].launch_cost_usd_millions
       /\ disk.launches[i].payload_mass_kg # orig.launches[i].payload_mass_kg

\* C7: until the running script reaches its open(..., 'w'), also when it
\* died in the loop, the file is the collection it loaded.
C7_WriteAfterPass ==
  \A p \in Procs :
    (/\ hist # <<>>
     /\ hist[Len(hist)] = <<p, "load">>
     /\ pc[p] \in {"loop", "open", "pass_error"})
      => disk = File(loaded[p])

\* C7 witness: a script died in the loop with its list partly annotated.
C7_Witness ==
  \E p \in Procs :
    /\ pc[p] = "pass_error"
    /\ hist[Len(hist)] = <<p, "load">>
    /\ launches[p] # loaded[p]

\* the kinds of the lines p has printed, in order
Lines(p) == [i \in 1..Len(out[p]) |-> out[p][i].ev]

\* the positions of the lines of kind e in the output of p
Where(p, e) == {i \in 1..Len(out[p]) : out[p][i].ev = e}

\* the coverage statistic of script p
Statistic(p) ==
  IF p = "cost" THEN "Total estimated launch costs" ELSE "Remaining null values"

\* the lines of a complete run of p, in the order they are printed
Printed(p) ==
  IF p = "cost"
  THEN << "Loaded", "Added launch cost estimates",
          "Data file updated successfully", "Launches with cost data",
          "Total estimated launch costs" >>
  ELSE << "Loaded", "Updated launches with payload mass estimates",
          "Data file updated successfully", "Remaining null values" >>

\* C8 as stated: a successful run prints the coverage statistic before the
\* final "updated successfully" confirmation.
C8_StatisticBeforeConfirmation ==
  \A p \in Procs :
    pc[p] = "done" =>
      \A i \in Where(p, Statistic(p)) :
        \A j \in Where(p, "Data file updated successfully") : i < j

\* C8 amended: a run prints the count of records loaded, the count of
\* records newly annotated, the confirmation and then the coverage
\* statistics, in this order; the confirmation is printed only after the
\* write has completed.
C8_ConfirmationBeforeStatistic ==
  \A p \in Procs :
    /\ Len(Lines(p)) <= Len(Printed(p))
    /\ Lines(p) = SubSeq(Printed(p), 1, Len(Lines(p)))
    /\ pc[p] = "done" =>
         /\ Lines(p) = Printed(p)
         /\ out[p][1].n = Len(loaded[p])
         /\ out[p][2].n = count[p]
    /\ Where(p, "Data file updated successfully") # {} =>
         LastPos(p, "save") > LastPos(p, "load")

\* C8 witness: a run of each script has printed all its lines.
C8_Witness ==
  /\ BothDone
  /\ Len(loaded["cost"]) = 2
  /\ count["payload"] = 1

Lacking(v) == ~Truthy(v)

\* the first of the ordered rules <<condition, value>> whose condition
\* holds, `default` when none does
FirstMatch(rules, default) ==
  LET hits == {i \in 1..Len(rules) : rules[i][1]}
  IN  IF hits = {} THEN default
      ELSE rules[CHOOSE i \in hits : \A j \in hits : i <= j][2]

\* the cost the rule order of C9 gives a record, `unset` when no vehicle
\* family matches
ExpectedCost(l, unset) ==
  LET m == l.mission_name.s
      v == IF l.vehicle.t = "absent" THEN <<>> ELSE l.vehicle.s
      dated == l.launch_date.t # "absent"
      d == l.launch_date.s
      f9 == Contains(sFalcon9, v)
  IN  FirstMatch(
        << <<Contains(sFalcon1, v), Num(7)>>,
           <<Contains(sFalconHeavy, v) /\ (Contains(sSTP2, m) \/ Contains(sArabsat, m)),
             Num(150)>>,
           <<Contains(sFalconHeavy, v), Num(97)>>,
           <<Contains(sStarship, v), Num(10)>>,
           <<f9 /\ Contains(sStarlink, m), Num(15)>>,
           <<f9 /\ (Contains(sCrew, m) \/ Contains(sDemo2, m)), Num(55)>>,
           <<f9 /\ (Contains(sCRS, m) \/ Contains(sSpX, m)), Num(62)>>,
           <<f9 /\ dated /\ StrGE(d, dReuseDefault), Num(50)>>,
           <<f9 /\ dated /\ StrGE(d, dFirstReuse), Num(62)>>,
           <<f9, Num(62)>> >>,
        unset)

\* C9: after the pass, a record that had no cost carries the cost of the
\* first matching branch (Falcon 1, Falcon Heavy, Starship, Falcon 9 with
\* its sub-rules in order), and its field is as it was when no vehicle
\* family matches; CRS-21 on Falcon 9 Block 5 of 2020-12-06 gets the cargo
\* cost, not the reused cost.
C9_CostRuleOrder ==
  pc["cost"] \in {"open", "dump", "success", "stats", "done", "stats_error"} =>
    \A i \in 1..Len(launches["cost"]) :
      LET l == loaded["cost"][i]
          now == launches["cost"][i].launch_cost_usd_millions
      IN  Lacking(l.launch_cost_usd_millions) =>
            /\ now = ExpectedCost(l, l.launch_cost_usd_millions)
            /\ (/\ l.mission_name = Str(mCRS21)
                /\ l.vehicle = Str(vFalcon9B5)
                /\ l.launch_date = Str(d20201206))
                 => /\ now = Num(INTERNAL_MISSIONS["Cargo Dragon"])
                    /\ now # Num(COSTS["reused"])

\* C9 witness: the pass is over the CRS-21 record, which had no cost.
C9_Witness ==
  /\ pc["cost"] = "done"
  /\ loaded["cost"][1].mission_name = Str(mCRS21)
  /\ loaded["cost"][1].vehicle = Str(vFalcon9B5)
  /\ loaded["cost"][1].launch_date = Str(d20201206)
  /\ loaded["cost"][1].launch_cost_usd_millions = Absent
  /\ launches["cost"][1].launch_cost_usd_millions = Num(62)

\* the decimal digits of a character
DigitValue ==
  [ c \in Digits |->
      CASE c = "0" -> 0 [] c = "1" -> 1 [] c = "2" -> 2 [] c = "3" -> 3
        [] c = "4" -> 4 [] c = "5" -> 5 [] c = "6" -> 6 [] c = "7" -> 7
        [] c = "8" -> 8 [] c = "9" -> 9 ]

RECURSIVE Decimal(_, _)
\* the number written by the digits ds, after the digits read so far
Decimal(ds, acc) ==
  IF ds = <<>> THEN acc ELSE Decimal(Tail(ds), 10 * acc + DigitValue[Head(ds)])

\* the places <<i, k>> of the mission name where "Group " starts at i and
\* is followed by k >= 1 digits and a hyphen
GroupPlaces(m) ==
  { ik \in (1..Len(m)) \X (1..Len(m)) :
      /\ ik[1] + 6 + ik[2] <= Len(m)
      /\ SubSeq(m, ik[1], ik[1] + 5) = sGroupSp
      /\ \A j \in (ik[1] + 6)..(ik[1] + 5 + ik[2]) : m[j] \in Digits
      /\ m[ik[1] + 6 + ik[2]] = "-" }

\* the group number extracted from the mission name is at least 6
CompactGeneration(m) ==
  /\ GroupPlaces(m) # {}
  /\ LET ik == CHOOSE x \in GroupPlaces(m) : \A y \in GroupPlaces(m) : x[1] <= y[1]
     IN  Decimal(SubSeq(m, ik[1] + 6, ik[1] + 5 + ik[2]), 0) >= 6

\* the mass the rule order of C10 gives a record, `unset` when no rule
\* matches
ExpectedMass(l, unset) ==
  LET m == l.mission_name.s
  IN  FirstMatch(
        << <<Contains(sStarlink, m) /\ CompactGeneration(m), Num(17400)>>,
           <<Contains(sStarlink, m), Num(15600)>>,
           <<Contains(sCRS, m) \/ Contains(sSpX, m), Num(2500)>>,
           <<Contains(sCrew, m) \/ Contains(sDemo2, m), Num(12500)>>,
           <<Contains(sGPS, m), Num(4400)>>,
           <<Contains(sIridium, m), Num(9600)>>,
           <<Contains(sOneWeb, m), Num(5000)>>,
           <<\E x \in Comsats : Contains(x, m), Num(5300)>>,
           <<Contains(sTransporter, m), Num(5000)>>,
           <<l.vehicle = Str(sFalconHeavy) /\ Contains(sArabsat, m), Num(6000)>>,
           <<l.vehicle = Str(sFalconHeavy) /\ Contains(sSTP2, m), Num(3700)>>,
           <<l.vehicle = Str(sFalconHeavy), Num(6000)>> >>,
        unset)

\* C10: after the pass, a record that had no payload mass carries the mass
\* of the first matching rule (Starlink, CRS/SpX, Crew/Demo-2, GPS, Iridium,
\* OneWeb, commercial operators, Transporter, vehicle = "Falcon Heavy"), and
\* its field is as it was when none matches; "Starlink Group 6-10" gets the
\* compact-generation mass, "Starlink Group 4-5" and a Starlink name with no
\* group number the standard one, also when the name contains "CRS".
C10_PayloadRuleOrder ==
  pc["payload"] \in {"open", "dump", "success", "stats", "done"} =>
    \A i \in 1..Len(launches["payload"]) :
      LET l == loaded["payload"][i]
          now == launches["payload"][i].payload_mass_kg
      IN  LacksMass(l) =>
            /\ now = ExpectedMass(l, l.payload_mass_kg)
            /\ l.mission_name = Str(mStarlink610) => now = Num(STARLINK_MASSES["v2-mini"])
            /\ l.mission_name \in {Str(mStarlink45), Str(mStarlinkL15), Str(mStarlinkCRS)}
                 => now = Num(STARLINK_MASSES["v1.5"])

\* C10 witness: the pass is over a record without a mass whose name
\* contains both "Starlink" and "CRS".
C10_Witness ==
  /\ pc["payload"] = "done"
  /\ loaded["payload"][1].mission_name = Str(mStarlinkCRS)
  /\ loaded["payload"][1].payload_mass_kg = Num(0)
  /\ launches["payload"][1].payload_mass_kg = Num(15600)
====
